---- MODULE Spec2Model ----
(***************************************************************************)
(* A model of tuxdrive: the path forest (src/src/forest.rs) and the        *)
(* polling watcher built on it (src/src/watcher.rs), run against a small   *)
(* model of a POSIX directory hierarchy.                                   *)
(*                                                                         *)
(* A path is the sequence of its normal components: <<>> is "/",           *)
(* <<"w","a">> is "/w/a".  std::path's component list of a path is the     *)
(* root-directory component "/" followed by the normal components.         *)
(***************************************************************************)
EXTENDS Integers, Sequences, FiniteSets, TLC

\* ------------------------------------------------------------------ bounds
\* Longest path of the modelled disk, in normal components.
MaxDepth == 3
\* Largest value of the clock the disk stamps mtime and ctime with.
MaxTime == 2
\* Number of disk mutations in one behaviour.
MaxFsOps == 2
\* Number of consecutive polls with no disk mutation in between.
MaxStreak == 2
\* Number of nodes in the forest above which add_path is not called again.
MaxNodes == 3

\* Component names of the modelled disk; the watched directory is /w.
Names == {"w", "a"}
RootDir == "/"

RECURSIVE SeqsUpTo(_)
SeqsUpTo(n) ==
    IF n = 0 THEN {<<>>}
    ELSE LET S == SeqsUpTo(n - 1)
         IN  S \cup {Append(s, c) : s \in {x \in S : Len(x) = n - 1}, c \in Names}

\* Every path of the modelled disk except "/" itself: /w and what is below it.
Paths == {p \in SeqsUpTo(MaxDepth) : Len(p) >= 1 /\ p[1] = "w"}

\* The orders a hash map or read_dir may yield the names in.
Orders == {o \in [1..Cardinality(Names) -> Names] : \A c \in Names : \E i \in DOMAIN o : o[i] = c}
AnyOrder == CHOOSE o \in Orders : TRUE

\* ------------------------------------------------------------------ paths
\* Path::components
Components(p) == <<RootDir>> \o p

\* PathBuf::push: pushing an absolute component replaces the path.
Push(p, c) == IF c = RootDir THEN <<>> ELSE Append(p, c)

\* PathBuf::pop: "/" has no parent and is left alone.
Pop(p) == IF p = <<>> THEN p ELSE SubSeq(p, 1, Len(p) - 1)

\* Path::parent, for a path other than "/".
Parent(p) == SubSeq(p, 1, Len(p) - 1)

\* Path::starts_with
StartsWith(p, base) == Len(base) <= Len(p) /\ SubSeq(p, 1, Len(base)) = base

\* Iterator::skip on a component list.
Skip(s, n) == IF n >= Len(s) THEN <<>> ELSE SubSeq(s, n + 1, Len(s))

\* ------------------------------------------------------------------- disk
\* One directory entry.  kind "none": nothing there.  "fifo": exists, neither
\* a regular file nor a directory (a fifo, a socket, a device).  readable:
\* read_dir of a directory succeeds (a directory with mode 0300 can be
\* searched, so the paths below it can still be stat-ed, but it cannot be
\* listed).  broken: read_dir of the directory fails with an error that is
\* neither NotFound nor PermissionDenied (EIO from the medium).
NoEntry == [kind |-> "none", mtime |-> 0, ctime |-> 0, readable |-> TRUE, broken |-> FALSE]
Entry(k, t) == [kind |-> k, mtime |-> t, ctime |-> t, readable |-> TRUE, broken |-> FALSE]

\* What creat, mkdir, mkdir -m 0300 and mkfifo make.
Created(k, t) == IF k = "dir0300" THEN [Entry("dir", t) EXCEPT !.readable = FALSE] ELSE Entry(k, t)
CreateKinds == {"file", "dir", "dir0300", "fifo"}

KindOf(d, p) == IF p = <<>> THEN "dir" ELSE IF p \in DOMAIN d THEN d[p].kind ELSE "none"

\* Path::exists, Path::is_dir, Path::is_file (all three follow symbolic links)
exists(d, p) == KindOf(d, p) \in {"file", "dir", "fifo"}
is_dir(d, p) == KindOf(d, p) = "dir"
is_file(d, p) == KindOf(d, p) = "file"

\* Path::read_dir: "Ok" with the entries, or the error kind.
read_dir_result(d, p) ==
    IF ~is_dir(d, p) THEN "NotFound"
    ELSE IF p # <<>> /\ ~d[p].readable THEN "PermissionDenied"
    ELSE IF p # <<>> /\ d[p].broken THEN "Other"
    ELSE "Ok"

\* The entries read_dir yields for directory p, in the order o.
read_dir_entries(d, p, o) ==
    LET present(c) == Append(p, c) \in DOMAIN d /\ d[Append(p, c)].kind # "none"
        names == SelectSeq(o, present)
    IN  [i \in 1..Len(names) |-> Append(p, names[i])]

\* ----------------------------------------------------------------- forest
\* ModTimeInfo::default
Default == [mtime |-> 0, ctime |-> 0]

\* A tree is a function from node keys to nodes; the key of a node is the chain
\* of child names leading to it from the tree's root node (<<>>: the root node).
\* PathNode::new
PathNode_new(info, isdir) == [info |-> info, is_dir |-> isdir]

IsPrefix(k, l) == Len(k) <= Len(l) /\ SubSeq(l, 1, Len(k)) = k

\* HashMap::remove of a child: the node at key k goes with everything below it.
DropSubtree(t, k) == [x \in {y \in DOMAIN t : ~IsPrefix(k, y)} |-> t[x]]

\* HashMap::insert of a child with no children of its own: replaces what was there.
InsertNode(t, k, node) ==
    LET base == DropSubtree(t, k)
    IN  [x \in DOMAIN base \cup {k} |-> IF x = k THEN node ELSE base[x]]

\* The names of the children of node k, in the order o.
ChildNames(t, k, o) ==
    LET has(c) == Append(k, c) \in DOMAIN t
    IN  SelectSeq(<<RootDir>> \o o, has)

\* PathTree::new
PathTree_new == [k \in {<<>>} |-> PathNode_new(Default, TRUE)]

\* PathTree::strip_root
strip_root(root, path) == Skip(Components(path), Len(Components(root)) - 1)

\* PathNode::add_node_rec, on the node at key `at`
RECURSIVE add_node_rec(_, _, _, _, _)
add_node_rec(t, at, comps, info, isdir) ==
    LET k == Append(at, comps[1])
    IN  IF Len(comps) = 1 THEN InsertNode(t, k, PathNode_new(info, isdir))
        ELSE IF k \in DOMAIN t THEN add_node_rec(t, k, Tail(comps), info, isdir)
        ELSE add_node_rec(InsertNode(t, k, PathNode_new(Default, TRUE)), k, Tail(comps), info, isdir)

\* PathNode::remove_node_rec: removing a missing node changes nothing.
remove_node_rec(t, comps) == IF comps \in DOMAIN t THEN DropSubtree(t, comps) ELSE t

\* PathTree::add_path
PathTree_add_path(t, root, path, info, isdir) ==
    add_node_rec(t, <<>>, strip_root(root, path), info, isdir)

\* PathTree::remove_path
PathTree_remove_path(t, root, path) == remove_node_rec(t, strip_root(root, path))

\* The forest with the tree of `root` set to t.
WithTree(f, root, t) == [r \in DOMAIN f \cup {root} |-> IF r = root THEN t ELSE f[r]]
EmptyForest == [r \in {} |-> PathTree_new]

\* PathForest::add_path
add_path(f, root, path, info, isdir) ==
    LET t == IF root \in DOMAIN f THEN f[root] ELSE PathTree_new
    IN  WithTree(f, root, PathTree_add_path(t, root, path, info, isdir))

\* PathForest::remove_path
remove_path(f, root, path) == WithTree(f, root, PathTree_remove_path(f[root], root, path))

\* PathForest::add_dir_rec_intern: the forest after the walk of dir_path, and
\* whether the caller is to remove dir_path again (RecursiveBehaviour).
\* DirEntry::file_type does not follow symbolic links.
RECURSIVE add_dir_rec_intern(_, _, _, _, _)
RECURSIVE add_dir_rec_entries(_, _, _, _, _)
add_dir_rec_intern(f, d, root_path, dir_path, o) ==
    IF read_dir_result(d, dir_path) # "Ok" THEN [f |-> f, rb |-> "Delete"]
    ELSE [f |-> add_dir_rec_entries(f, d, root_path, read_dir_entries(d, dir_path, o), o),
          rb |-> "Nothing"]

\* The loop of add_dir_rec_intern over the entries es.
add_dir_rec_entries(f, d, root_path, es, o) ==
    IF es = <<>> THEN f
    ELSE LET path == Head(es)
             k == KindOf(d, path)
             f1 == add_path(f, root_path, path, Default, k = "dir")
             r == add_dir_rec_intern(f1, d, root_path, path, o)
             f2 == IF k # "dir" THEN f1
                   ELSE IF r.rb = "Delete" THEN remove_path(r.f, root_path, path)
                   ELSE r.f
         IN  IF k \notin {"dir", "file"} THEN add_dir_rec_entries(f, d, root_path, Tail(es), o)
             ELSE add_dir_rec_entries(f2, d, root_path, Tail(es), o)

\* PathForest::add_dir_recursively (dir_path is a directory: the assertion)
add_dir_recursively(f, d, dir_path, o) ==
    LET f1 == add_path(f, dir_path, dir_path, Default, TRUE)
        r == add_dir_rec_intern(f1, d, dir_path, dir_path, o)
    IN  IF r.rb = "Delete" THEN remove_path(r.f, dir_path, dir_path) ELSE r.f

\* The loop of add_dir_non_recursively over the entries es.
RECURSIVE add_dir_non_rec_entries(_, _, _, _)
add_dir_non_rec_entries(f, d, dir_path, es) ==
    IF es = <<>> THEN f
    ELSE LET path == Head(es)
             k == KindOf(d, path)
         IN  IF k \notin {"dir", "file"} THEN add_dir_non_rec_entries(f, d, dir_path, Tail(es))
             ELSE add_dir_non_rec_entries(add_path(f, dir_path, path, Default, k = "dir"),
                                          d, dir_path, Tail(es))

\* PathForest::add_dir_non_recursively
add_dir_non_recursively(f, d, dir_path, o) ==
    IF read_dir_result(d, dir_path) # "Ok" THEN f
    ELSE add_dir_non_rec_entries(add_path(f, dir_path, dir_path, Default, TRUE), d, dir_path,
                                 read_dir_entries(d, dir_path, o))

\* ------------------------------------------------------------ timestamps
\* stat(2) of an existing path: st_mtime and st_ctime.
Stat(d, p) == IF p = <<>> THEN [mtime |-> 1, ctime |-> 1]
              ELSE [mtime |-> d[p].mtime, ctime |-> d[p].ctime]

\* ModTimeInfo::update_times: ENOENT makes it answer Delete and leave the record.
ModTimeInfo_update_times(info, d, path) ==
    IF exists(d, path) THEN [action |-> "Nothing", info |-> Stat(d, path)]
    ELSE [action |-> "Delete", info |-> info]

\* ModTimeInfo::modified_since
modified_since(info, since) == info.mtime > since.mtime

\* A changed_since that takes an equal ctime for a change.
changed_since_or_equal(info, since) == info.ctime >= since.ctime

\* ModTimeInfo::changed_since
changed_since(info, since) == info.ctime > since.ctime

\* ModTimeInfo::updated_since
updated_since(info, since) == modified_since(info, since) \/ changed_since(info, since)

\* --------------------------------------------------------------- visitors
\* WatchEvent::new
WatchEvent(path, kind) == [path |-> path, kind |-> kind]

\* What a visitor call answers: the DfsFuncBehaviour (with its paths), or
\* "Err" for an error returned, the payload it leaves in the node, and the
\* events it sent meanwhile.
Answer(beh, paths, info, ev) == [beh |-> beh, paths |-> paths, info |-> info, ev |-> ev]

\* The closure of Watcher::update_times
update_times_visitor(d, path, dfs_info) ==
    IF ~exists(d, path) THEN Answer("Delete", <<>>, dfs_info.info, <<>>)
    ELSE LET old_time_info == dfs_info.info
             u == ModTimeInfo_update_times(dfs_info.info, d, path)
         IN  IF u.action = "Delete" THEN Answer("Delete", <<>>, u.info, <<>>)
             ELSE IF updated_since(u.info, old_time_info) /\ dfs_info.is_dir
                  THEN Answer("Continue", <<>>, u.info, <<>>)
                  ELSE Answer("Stop", <<>>, u.info, <<>>)

\* poll_tree::handle_dir; info is the payload update_times has just refreshed.
handle_dir(d, path, dfs_info, info, o) ==
    IF read_dir_result(d, path) \in {"NotFound", "PermissionDenied"}
        THEN Answer("Delete", <<>>, info, <<>>)
    ELSE IF read_dir_result(d, path) # "Ok" THEN Answer("Err", <<>>, info, <<>>)
    ELSE LET fresh(e) == e \notin dfs_info.children_paths /\ (is_dir(d, e) \/ is_file(d, e))
             new_paths == SelectSeq(read_dir_entries(d, path, o), fresh)
             sent == [i \in 1..Len(new_paths) |-> WatchEvent(new_paths[i], "Create")]
         IN  IF new_paths # <<>> THEN Answer("AddAndContinue", new_paths, info, sent)
             ELSE Answer("Continue", <<>>, info, <<>>)

\* poll_tree::handle_file
handle_file(path, info, old_time_info) ==
    IF modified_since(info, old_time_info)
        THEN Answer("Stop", <<>>, info, <<WatchEvent(path, "Written")>>)
    ELSE IF changed_since(info, old_time_info)
        THEN Answer("Stop", <<>>, info, <<WatchEvent(path, "Chmod")>>)
    ELSE Answer("Stop", <<>>, info, <<>>)

\* The closure of poll_tree
poll_tree_visitor(d, path, dfs_info, o) ==
    LET gone == Answer("Delete", <<>>, dfs_info.info, <<WatchEvent(path, "Delete")>>)
        old_time_info == dfs_info.info
        u == ModTimeInfo_update_times(dfs_info.info, d, path)
    IN  IF ~exists(d, path) THEN gone
        ELSE IF ~is_dir(d, path) /\ ~is_file(d, path) THEN gone
        ELSE IF is_dir(d, path) # dfs_info.is_dir THEN gone
        ELSE IF u.action = "Delete" THEN gone
        ELSE IF dfs_info.is_dir THEN handle_dir(d, path, dfs_info, u.info, o)
        ELSE handle_file(path, u.info, old_time_info)

\* A visitor that answers what the caller of dfs_mut wrote down for the path
\* (d holds, next to the disk, the answer the closure has captured for each
\* path), leaves the payload alone and notes each of its calls.
script_visitor(d, path, dfs_info) ==
    Answer(d[path].beh,
           IF d[path].beh \in {"AddAndContinue", "AddAndStop"} THEN d[path].paths ELSE <<>>,
           dfs_info.info,
           <<WatchEvent(path, "Visit")>>)

\* The visitor a pass runs: "update" is Watcher::update_times, "poll" is
\* poll_tree, "script" is a closure of a direct caller of dfs_mut.
Visitor(mode, d, path, dfs_info, o) ==
    IF mode = "update" THEN update_times_visitor(d, path, dfs_info)
    ELSE IF mode = "poll" THEN poll_tree_visitor(d, path, dfs_info, o)
    ELSE script_visitor(d, path, dfs_info)

\* -------------------------------------------------------------------- dfs
\* PathNode::get_dfs_mut_info
get_dfs_mut_info(t, key, path, o) ==
    LET names == ChildNames(t, key, o)
    IN  [children_paths |-> {Push(path, names[i]) : i \in 1..Len(names)},
         info |-> t[key].info,
         is_dir |-> t[key].is_dir]

\* PathNode::dfs_mut::add_new_paths: a child per path, named by the path's last
\* component, with the default payload and is_dir read from the disk.
RECURSIVE add_new_paths(_, _, _, _)
add_new_paths(t, key, new_paths, d) ==
    IF new_paths = <<>> THEN t
    ELSE LET path == Head(new_paths)
             name == path[Len(path)]
         IN  add_new_paths(InsertNode(t, Append(key, name), PathNode_new(Default, is_dir(d, path))),
                           key, Tail(new_paths), d)

RECURSIVE DropAll(_, _)
DropAll(t, keys) ==
    IF keys = {} THEN t
    ELSE LET k == CHOOSE x \in keys : TRUE IN DropAll(DropSubtree(t, k), keys \ {k})

\* PathNode::dfs_mut on the node at `key`, whose path is curr_path: the tree
\* after the pass, the events sent, and the RecursiveBehaviour answered.
RECURSIVE PathNode_dfs_mut(_, _, _, _, _, _)
RECURSIVE recurse_loop(_, _, _, _, _, _, _, _, _)

\* PathNode::dfs_mut::recurse_downwards: every child in turn, then the removal
\* of those that answered Delete; an error of a child (rb "Err") is returned
\* at once, before any removal.
recurse_downwards_first(mode, o, d, t, key, curr_path, ev) ==
    LET r == recurse_loop(mode, o, d, t, key, curr_path, ChildNames(t, key, o), <<>>, {})
    IN  [r EXCEPT !.ev = r.ev \o ev]

recurse_downwards(mode, o, d, t, key, curr_path, ev) ==
    recurse_loop(mode, o, d, t, key, curr_path, ChildNames(t, key, o), ev, {})

recurse_loop(mode, o, d, t, key, curr_path, names, ev, keys_to_delete) ==
    IF names = <<>> THEN [t |-> DropAll(t, keys_to_delete), ev |-> ev, rb |-> "Nothing"]
    ELSE LET k == Append(key, Head(names))
             pushed == Push(curr_path, Head(names))
             r == PathNode_dfs_mut(mode, o, d, t, k, pushed)
         IN  IF r.rb = "Err" THEN [t |-> r.t, ev |-> ev \o r.ev, rb |-> "Err"]
             ELSE recurse_loop(mode, o, d, r.t, key, Pop(pushed), Tail(names), ev \o r.ev,
                               IF r.rb = "Delete" THEN keys_to_delete \cup {k}
                               ELSE keys_to_delete)

PathNode_dfs_mut_eager(mode, o, d, t, key, curr_path) ==
    LET a == Visitor(mode, d, curr_path, get_dfs_mut_info(t, key, curr_path, o), o)
        t1 == [t EXCEPT ![key].info = a.info]
    IN  IF a.beh = "Delete" THEN [t |-> t1, ev |-> a.ev, rb |-> "Delete"]
        ELSE recurse_downwards(mode, o, d, add_new_paths(t1, key, a.paths, d), key, curr_path, a.ev)

PathNode_dfs_mut(mode, o, d, t, key, curr_path) ==
    LET a == Visitor(mode, d, curr_path, get_dfs_mut_info(t, key, curr_path, o), o)
        t1 == [t EXCEPT ![key].info = a.info]
    IN  CASE a.beh = "Err" -> [t |-> t1, ev |-> a.ev, rb |-> "Err"]
          [] a.beh = "Continue" -> recurse_downwards(mode, o, d, t1, key, curr_path, a.ev)
          [] a.beh = "Stop" -> [t |-> t1, ev |-> a.ev, rb |-> "Nothing"]
          [] a.beh = "Delete" -> [t |-> t1, ev |-> a.ev, rb |-> "Delete"]
          [] a.beh = "AddAndContinue" ->
                recurse_downwards(mode, o, d, add_new_paths(t1, key, a.paths, d), key, curr_path, a.ev)
          [] a.beh = "AddAndStop" ->
                [t |-> add_new_paths(t1, key, a.paths, d), ev |-> a.ev, rb |-> "Nothing"]

\* PathTree::root_path: the parent path extended by the root node's name, which
\* is the key the forest keeps the tree under.
root_path(root) == root

\* PathTree::dfs_mut
PathTree_dfs_mut(mode, o, d, t, root) == PathNode_dfs_mut(mode, o, d, t, <<>>, root_path(root))

\* PathForest::dfs_mut: every tree, then the removal of the trees whose root
\* answered Delete.
PathForest_dfs_mut(mode, o, d, f) ==
    LET res == [r \in DOMAIN f |-> PathTree_dfs_mut(mode, o, d, f[r], r)]
        keys_to_delete == {r \in DOMAIN f : res[r].rb = "Delete"}
    IN  [r \in DOMAIN f \ keys_to_delete |-> res[r].t]

\* Watcher::update_times
update_times(f, d, o) == PathForest_dfs_mut("update", o, d, f)

\* ------------------------------------------------------------------ state
VARIABLES
    disk,     \* the directory hierarchy: Paths -> entry
    now,      \* the clock the disk stamps mtime and ctime with, in seconds
    forest,   \* Watcher::forest: root path -> tree
    phase,    \* "setup" until the first poll, then "polling"; "stopped" once
              \* start_polling has returned an error
    hist,     \* the polls since the last disk mutation or registration, oldest
              \* first: the forest each started from (pre), the disk as the poll
              \* before it left it (seen; first: there was none), and per tree,
              \* in the order walked, the events its walk sent (runs)
    seen,     \* the disk as of the last poll
    regs,     \* the roots add_directory returned Ok for -> its `recursive` argument
    quiet,    \* no disk mutation since the last add_directory that returned Ok
    last,     \* the last operation and what it returned
    nops,     \* disk mutations so far
    given,    \* for the nodes a direct call of PathForest::add_path installed,
              \* <<root, key>> -> the path that call was given
    curr_id,  \* AtomicIdGenerator::curr_id
    thr,      \* per thread, where its call of next_id stands (pc), the value
              \* its fetch_add read (val) and the largest value any call had
              \* returned when this one started (floor)
    incs,     \* the values the atomic increments returned, in the order of
              \* the increments
    rets,     \* the calls of next_id that have returned, in the order of
              \* return: the value and the floor of the call
    ppc,      \* where the thread in start_polling stands: "idle" before a
              \* cycle, "loop" in the for of poll, "installed" inside
              \* ThreadPool::install, "wait" in wg.wait, "returned" from poll
    cycle,    \* the poll cycles started
    todo,     \* the roots trees_mut has yet to yield in this cycle
    walking,  \* the poll_trees running on a worker: the root of the tree,
              \* the events yet to send (left), the tree it leaves (t), and
              \* whether the closure holding it has returned (done)
    wg,       \* the clones of the WaitGroup alive, the original included
    chan,     \* the event channel: the events sent, each with the cycle
              \* that sent it
    due,      \* the events of the walks this cycle has installed
    peak,     \* the most walks that were in progress at once
    call,     \* a call of ReadCommand::process on its own: the command's
              \* kind and event_id and what the system calls answer (s); or
              \* a call of Config::from_reader and the document it reads
    out,      \* what that call returned, tagged "none" before it has
    fds,      \* the file descriptors that calls of read_deletable_file have
              \* opened and not closed
    sys,      \* for the reader: path -> what the system calls answer for it
    cmds,     \* the command channel: the commands sent and not yet received
    sender,   \* the Sender of the command channel has not been dropped
    results,  \* the result channel: the ReadData sent
    rpc,      \* start_reader: "new" before the call, "running", and "Err" or
              \* "panicked" for how it ended
    loops,    \* the drain closures installed, in order: where each stands
              \* (pc), the command it received (comm), its result (data)
    placed    \* every command sent, in order, and whether start_reader was
              \* running when it was sent

\* The id generator.
idvars == <<curr_id, thr, incs, rets>>

\* One call of start_polling, step by step.
pollvars == <<ppc, cycle, todo, walking, wg, chan, due, peak>>

\* One call of ReadCommand::process.
procvars == <<call, out, fds>>

\* The FileReader and its two channels.
readervars == <<sys, cmds, sender, results, rpc, loops, placed>>

\* What the watcher and the forest do not touch.
aux == <<idvars, pollvars, procvars, readervars>>

\* The watcher, its forest and the disk.
wvars == <<disk, now, forest, phase, hist, seen, regs, quiet, last, nops, given>>

vars == <<disk, now, forest, phase, hist, seen, regs, quiet, last, nops, given, aux>>

\* The threads that share one generator, and the calls they make in all.
NThreads == 3
MaxCalls == 4
Threads == 1..NThreads

\* AtomicIdGenerator::new.
AtomicIdGenerator_new == 1

InitIds ==
    /\ curr_id = AtomicIdGenerator_new
    /\ thr = [t \in Threads |-> [pc |-> "idle", val |-> 0, floor |-> 0]]
    /\ incs = <<>>
    /\ rets = <<>>

\* The poll cycles one call of start_polling goes through.
MaxCycles == 2

\* start_polling has not been called.
InitPoll ==
    /\ ppc = "idle"
    /\ cycle = 0
    /\ todo = <<>>
    /\ walking = {}
    /\ wg = 0
    /\ chan = <<>>
    /\ due = <<>>
    /\ peak = 0

\* No call of ReadCommand::process is under way.
InitNoCall ==
    /\ call = [kind |-> "none"]
    /\ out = [tag |-> "none"]
    /\ fds = 0

\* The paths commands name, and the commands sent in all.
RPaths == {"f", "g"}
MaxCmds == 2

\* A regular file of 5 bytes, mode 0o100644, that every call succeeds on.
Healthy == [open |-> "Ok", stat |-> "Ok", read |-> "Ok", at |-> 1, size |-> 5, mode |-> 33188]

\* FileReader::new: two empty channels; start_reader has not been called.
InitReader ==
    /\ cmds = <<>>
    /\ sender = TRUE
    /\ results = <<>>
    /\ rpc = "new"
    /\ loops = <<>>
    /\ placed = <<>>

InitAux == InitIds /\ InitPoll /\ InitNoCall /\ InitReader /\ sys = [p \in RPaths |-> Healthy]

W == <<"w">>

\* The directories the driver registers.
Roots == {W, <<"w", "a">>}

\* A disk holding the given directories and regular files, all stamped 1.
MkDisk(dirs, files) ==
    [p \in Paths |-> IF p \in dirs THEN Entry("dir", 1)
                     ELSE IF p \in files THEN Entry("file", 1)
                     ELSE NoEntry]

\* The disks a behaviour starts from.
InitDisks ==
    { MkDisk({W}, {}),
      MkDisk({W}, {<<"w", "a">>}),
      MkDisk({W, <<"w", "a">>}, {<<"w", "a", "a">>}),
      MkDisk({W, <<"w", "w">>}, {<<"w", "a">>, <<"w", "w", "a">>}) }

\* Watcher::new: an empty forest.
InitWatcher ==
    /\ disk \in InitDisks
    /\ now = 1
    /\ forest = EmptyForest
    /\ phase = "setup"
    /\ hist = <<>>
    /\ seen = disk
    /\ regs = [r \in {} |-> TRUE]
    /\ quiet = FALSE
    /\ last = [op |-> "new"]
    /\ nops = 0
    /\ given = <<>>

Init == InitWatcher /\ InitAux

\* ------------------------------------------------------- the disk changes
Touched(d, p) == IF p = <<>> THEN d ELSE [d EXCEPT ![p].mtime = now, ![p].ctime = now]

DiskChanged(d) ==
    /\ nops < MaxFsOps
    /\ disk' = d
    /\ nops' = nops + 1
    /\ hist' = <<>>
    /\ quiet' = FALSE
    /\ last' = [op |-> "disk"]
    /\ UNCHANGED <<now, forest, phase, seen, regs, given, aux>>

\* creat, mkdir, mkfifo: a new entry in an existing directory.
Create(p, k) ==
    /\ KindOf(disk, p) = "none"
    /\ is_dir(disk, Parent(p))
    /\ DiskChanged([Touched(disk, Parent(p)) EXCEPT ![p] = Created(k, now)])

\* unlink, rm -r: the entry goes with everything below it.
Remove(p) ==
    /\ KindOf(disk, p) # "none"
    /\ DiskChanged([q \in Paths |-> IF StartsWith(q, p) THEN NoEntry
                                    ELSE Touched(disk, Parent(p))[q]])

\* write to a regular file: mtime and ctime move.
Write(p) ==
    /\ is_file(disk, p)
    /\ DiskChanged(Touched(disk, p))

\* chmod: ctime moves; on a directory the read permission is flipped.
Chmod(p) ==
    /\ KindOf(disk, p) \in {"file", "dir"}
    /\ DiskChanged([disk EXCEPT ![p].ctime = now,
                                ![p].readable = IF disk[p].kind = "dir" THEN ~@ ELSE @])

\* A second passes, while the watcher sleeps between two polls or before the
\* first one.
Tick ==
    /\ now < MaxTime
    /\ last.op \in {"poll", "add_directory"}
    /\ now' = now + 1
    /\ UNCHANGED <<disk, forest, phase, hist, seen, regs, quiet, last, nops, given, aux>>

\* ------------------------------------------------------------ the watcher
\* The body of Watcher::add_directory without its check that the path is a
\* directory: the tree is added and the times are refreshed.
Watcher_add_directory_unchecked(f, d, path, recursive, o) ==
    [res |-> IF is_dir(d, path) THEN "Ok" ELSE "NotDirectory",
     forest |-> update_times(IF recursive THEN add_dir_recursively(f, d, path, o)
                             ELSE add_dir_non_recursively(f, d, path, o),
                             d, o)]

\* The body of Watcher::add_directory: what it returns and the forest it
\* leaves.
Watcher_add_directory(f, d, path, recursive, o) ==
    IF ~is_dir(d, path) THEN [res |-> "NotDirectory", forest |-> f]
    ELSE Watcher_add_directory_unchecked(f, d, path, recursive, o)

\* Watcher::add_directory, called before polling starts, once for a root.  The
\* forest it leaves does not depend on the order o read_dir and the hash maps
\* yield their elements in (each entry has a node of its own, and no events
\* are sent), so one order stands for all.
add_directory(path, recursive, o) ==
    /\ phase = "setup"
    /\ path \notin DOMAIN regs
    /\ IF Watcher_add_directory(forest, disk, path, recursive, o).res # "Ok"
       THEN /\ last' = [op |-> "add_directory", path |-> path,
                        res |-> Watcher_add_directory(forest, disk, path, recursive, o).res]
            /\ forest' = Watcher_add_directory(forest, disk, path, recursive, o).forest
            /\ UNCHANGED <<regs, quiet, hist>>
       ELSE /\ forest' = Watcher_add_directory(forest, disk, path, recursive, o).forest
            /\ regs' = [r \in DOMAIN regs \cup {path} |-> IF r = path THEN recursive ELSE regs[r]]
            /\ quiet' = TRUE
            /\ hist' = <<>>
            /\ last' = [op |-> "add_directory", path |-> path, res |-> "Ok"]
    /\ UNCHANGED <<disk, now, phase, seen, nops, given, aux>>

\* The loop of Watcher::poll over the trees, taken in the order `roots`:
\* ThreadPool::install returns when poll_tree has, and what the root node
\* answered is dropped; an error of poll_tree ends the loop.
RECURSIVE poll_trees(_, _, _, _, _)
poll_trees(f, d, roots, o, runs) ==
    IF roots = <<>> THEN [f |-> f, runs |-> runs, res |-> "Ok"]
    ELSE LET r == PathTree_dfs_mut("poll", o, d, f[Head(roots)], Head(roots))
             f1 == [f EXCEPT ![Head(roots)] = r.t]
             runs1 == Append(runs, [root |-> Head(roots), ev |-> r.ev])
         IN  IF r.rb = "Err" THEN [f |-> f1, runs |-> runs1, res |-> "Err"]
             ELSE poll_trees(f1, d, Tail(roots), o, runs1)

\* The orders HashMap::iter_mut may take the trees in.
TreeOrders(f) ==
    {s \in [1..Cardinality(DOMAIN f) -> DOMAIN f] : \A r \in DOMAIN f : \E i \in DOMAIN s : s[i] = r}

\* Watcher::poll, one iteration of start_polling; the driver starts polling
\* once it has registered a root.  An error of poll makes start_polling
\* return it: no poll follows.
poll(roots, o) ==
    /\ DOMAIN regs # {}
    /\ phase # "stopped"
    /\ Len(hist) < MaxStreak
    /\ LET r == poll_trees(forest, disk, roots, o, <<>>)
       IN  /\ forest' = r.f
           /\ hist' = Append(hist, [pre |-> forest, seen |-> seen, first |-> phase = "setup",
                                    runs |-> r.runs, roots |-> roots, res |-> r.res])
           /\ phase' = IF r.res = "Err" THEN "stopped" ELSE "polling"
    /\ seen' = disk
    /\ last' = [op |-> "poll"]
    /\ UNCHANGED <<disk, now, regs, quiet, nops, given, aux>>

Next ==
    \/ \E p \in Paths, k \in CreateKinds : Create(p, k)
    \/ \E p \in Paths : Remove(p)
    \/ \E p \in Paths : Write(p)
    \/ \E p \in Paths : Chmod(p)
    \/ Tick
    \/ \E p \in Roots, recursive \in BOOLEAN : add_directory(p, recursive, AnyOrder)
    \/ \E roots \in TreeOrders(forest), o \in Orders : poll(roots, o)

Spec == Init /\ [][Next]_vars

\* ------------------------------------------------- the forest on its own
\* PathForest driven directly, on a disk that stays as it is.

\* The roots of the trees: "/", /w and /w/a.
ForestRoots == {<<>>, W, <<"w", "a">>}

\* The disks of Init, and /w holding a fifo next to a regular file.
ForestDisks ==
    InitDisks \cup {[MkDisk({W}, {<<"w", "w">>}) EXCEPT ![<<"w", "a">>] = Entry("fifo", 1)]}

\* The nodes of the forest f, over all its trees.
ForestSize(f) == Cardinality(UNION {{<<r, k>> : k \in DOMAIN f[r]} : r \in DOMAIN f})

\* given, cut down to the nodes the forest f still holds.
StillThere(g, f) ==
    [rk \in {x \in DOMAIN g : x[1] \in DOMAIN f /\ x[2] \in DOMAIN f[x[1]]} |-> g[rk]]

InitForest ==
    /\ disk \in ForestDisks
    /\ now = 1
    /\ forest = EmptyForest
    /\ phase = "setup"
    /\ hist = <<>>
    /\ seen = disk
    /\ regs = [r \in {} |-> TRUE]
    /\ quiet = FALSE
    /\ last = [op |-> "new"]
    /\ nops = 0
    /\ given = <<>>
    /\ InitAux

\* The keys of the nodes below the node at key k.
Below(t, k) == {x \in DOMAIN t : IsPrefix(k, x) /\ x # k}

\* The tree of root has a node where add_path(root, path, ..) installs one.
HasNodeAt(f, root, path) == root \in DOMAIN f /\ strip_root(root, path) \in DOMAIN f[root]

\* PathForest::add_path(root, path, info, is_dir) with path equal to root or
\* below it; PathTree::new asserts that a new root is a directory.  The
\* forest grows up to MaxNodes nodes; a call for a node that is there and
\* has nodes below it does not make the forest grow.
call_add_path(root, path, isdir) ==
    /\ StartsWith(path, root)
    /\ root \in DOMAIN forest \/ is_dir(disk, root)
    /\ \/ ForestSize(forest) < MaxNodes
       \/ HasNodeAt(forest, root, path) /\ Below(forest[root], strip_root(root, path)) # {}
    /\ forest' = add_path(forest, root, path, Default, isdir)
    /\ LET at == <<root, strip_root(root, path)>>
           g == StillThere(given, forest')
       IN  given' = [rk \in DOMAIN g \cup {at} |-> IF rk = at THEN path ELSE g[rk]]
    /\ last' = [op |-> "add_path", root |-> root, path |-> path]
    /\ UNCHANGED <<disk, now, phase, hist, seen, regs, quiet, nops, aux>>

\* PathForest::remove_path(root, path); the tree of root must exist.
call_remove_path(root, path) ==
    /\ root \in DOMAIN forest
    /\ StartsWith(path, root)
    /\ forest' = remove_path(forest, root, path)
    /\ given' = StillThere(given, forest')
    /\ last' = [op |-> "remove_path", root |-> root, path |-> path]
    /\ UNCHANGED <<disk, now, phase, hist, seen, regs, quiet, nops, aux>>

\* PathForest::add_dir_recursively(dir_path) for a directory that has no tree
\* yet; the nodes it installs are not direct calls of add_path.
call_add_dir_recursively(dir_path, o) ==
    /\ is_dir(disk, dir_path)
    /\ dir_path \notin DOMAIN forest
    /\ forest' = add_dir_recursively(forest, disk, dir_path, o)
    /\ last' = [op |-> "add_dir_recursively", root |-> dir_path, path |-> dir_path]
    /\ UNCHANGED <<disk, now, phase, hist, seen, regs, quiet, nops, given, aux>>

NextForest ==
    \/ \E root \in ForestRoots, path \in Paths \cup {<<>>}, isdir \in BOOLEAN :
            call_add_path(root, path, isdir)
    \/ \E root \in ForestRoots, path \in Paths \cup {<<>>} : call_remove_path(root, path)
    \/ \E dir_path \in ForestRoots, o \in Orders : call_add_dir_recursively(dir_path, o)

SpecForest == InitForest /\ [][NextForest]_vars

\* ------------------------------------------------------- reading a poll
\* The path PathNode::dfs_mut hands the visitor for the node at `key` of the
\* tree of `root`: the root path with the names of the key pushed in turn.
RECURSIVE PathOf(_, _)
PathOf(root, key) == IF key = <<>> THEN root ELSE Push(PathOf(root, Pop(key)), key[Len(key)])

\* The paths dfs_mut reports for a tree.
TreePaths(root, t) == {PathOf(root, k) : k \in DOMAIN t}

\* The forest the i-th poll of hist left.
Post(i) == IF i < Len(hist) THEN hist[i + 1].pre ELSE forest

\* The events of a walk that are about path p.
About(ev, p) == SelectSeq(ev, LAMBDA e : e.path = p)
Sent(ev, e) == \E j \in DOMAIN ev : ev[j] = e
Times(ev, e) == Cardinality({j \in DOMAIN ev : ev[j] = e})

\* Everything one poll sent, in channel order.
RECURSIVE Flat(_)
Flat(runs) == IF runs = <<>> THEN <<>> ELSE Head(runs).ev \o Flat(Tail(runs))

\* Every node above `key` is a directory node whose path is a directory that
\* can be listed: the walk comes down to `key`.
Reached(t, root, key) ==
    \A n \in 0..(Len(key) - 1) :
        LET a == SubSeq(key, 1, n)
        IN  /\ t[a].is_dir
            /\ read_dir_result(disk, PathOf(root, a)) = "Ok"

\* The walk of the tree of `root` in the i-th poll of hist.
RunOf(i, root) == hist[i].runs[CHOOSE n \in DOMAIN hist[i].runs : hist[i].runs[n].root = root]

\* Every (poll, tree walk, node the walk started with) of hist satisfies Q.
EveryNode(Q(_, _, _, _, _)) ==
    \A i \in DOMAIN hist : \A n \in DOMAIN hist[i].runs :
        LET run == hist[i].runs[n]
        IN  \A k \in DOMAIN hist[i].pre[run.root] : Q(i, run, hist[i].pre[run.root], k, PathOf(run.root, k))

\* ----------------------------------------------------------------- claims
\* C1.  Initial silence: the first poll after an add_directory that returned
\* Ok, with no disk mutation in between, sends no event.
C1_InitialSilence == (quiet /\ Len(hist) >= 1) => Flat(hist[1].runs) = <<>>

\* The i-th poll of hist has a poll before it: what went on between the two
\* is the difference of hist[i].seen and disk.
BetweenPolls(i) == ~hist[i].first

\* C2.  Delete row: a path that has a node (a root or below one) and was
\* unlinked between two polls, while the walk still comes down to the node,
\* gets Delete exactly once from the next poll, its node is absent when that
\* poll returns, and no later poll sends Delete for it again while the disk
\* stays as it is.
C2_Row(i, run, t, k, p) ==
    ( /\ BetweenPolls(i)
      /\ exists(hist[i].seen, p)
      /\ ~exists(disk, p)
      /\ Reached(t, run.root, k) ) =>
        /\ Times(run.ev, WatchEvent(p, "Delete")) = 1
        /\ k \notin DOMAIN Post(i)[run.root]
        /\ \A j \in (i + 1)..Len(hist) : ~Sent(Flat(hist[j].runs), WatchEvent(p, "Delete"))
C2_DeleteRow == EveryNode(C2_Row)

\* C3.  Create row: when, since the poll before, exactly one regular file c
\* was created under a directory that has a node the walk comes down to, and
\* nothing else changed, the poll sends Create(c) and nothing else, and c has
\* a node when it returns.
OneFileCreated(d0, d1, c) ==
    /\ d0[c].kind = "none"
    /\ d1[c].kind = "file"
    /\ \A q \in Paths \ {c} :
          IF q = Parent(c) THEN d1[q].kind = d0[q].kind /\ d1[q].readable = d0[q].readable
          ELSE d1[q] = d0[q]
HasDirNode(f, p) ==
    \E r \in DOMAIN f : \E k \in DOMAIN f[r] :
        PathOf(r, k) = p /\ f[r][k].is_dir /\ Reached(f[r], r, k)
HasNode(f, p) == \E r \in DOMAIN f : p \in TreePaths(r, f[r])
C3_CreateRow ==
    \A c \in Paths :
        ( /\ Len(hist) >= 1
          /\ BetweenPolls(1)
          /\ OneFileCreated(hist[1].seen, disk, c)
          /\ HasDirNode(hist[1].pre, Parent(c)) )
        => /\ Flat(hist[1].runs) = <<WatchEvent(c, "Create")>>
           /\ HasNode(Post(1), c)

\* C4, as stated.  File-node decision for every file node of the forest that
\* holds the snapshot of the poll before and whose path still is a regular
\* file: the walk of its tree sends Written(P) alone when the disk's mtime is
\* above the node's, else Chmod(P) alone when the disk's ctime is above the
\* node's, else nothing about P; and a walk sends Written or Chmod for file
\* nodes only.
FileDecision(t, k, p) ==
    LET new == Stat(disk, p)
        old == t[k].info
    IN  IF new.mtime > old.mtime THEN <<WatchEvent(p, "Written")>>
        ELSE IF new.ctime > old.ctime THEN <<WatchEvent(p, "Chmod")>>
        ELSE <<>>
OnlyFileNodes(i, run) ==
    \A j \in DOMAIN run.ev :
        run.ev[j].kind \in {"Written", "Chmod"} =>
            \E k \in DOMAIN Post(i)[run.root] :
                /\ PathOf(run.root, k) = run.ev[j].path
                /\ ~Post(i)[run.root][k].is_dir
C4_StatedRow(i, run, t, k, p) ==
    /\ (BetweenPolls(i) /\ ~t[k].is_dir /\ is_file(disk, p))
            => About(run.ev, p) = FileDecision(t, k, p)
    /\ OnlyFileNodes(i, run)
C4_Row(i, run, t, k, p) ==
    /\ (BetweenPolls(i) /\ ~t[k].is_dir /\ is_file(disk, p) /\ Reached(t, run.root, k))
            => About(run.ev, p) = FileDecision(t, k, p)
    /\ OnlyFileNodes(i, run)
C5_Quiescence ==
    \A i \in 2..Len(hist) : Flat(hist[i].runs) = <<>> /\ Post(i) = hist[i].pre

\* C6.  Type change: when the path of a node other than a root was replaced
\* between two polls by the other type (a directory for a file node, a
\* regular file for a directory node), poll N sends Delete for it and no
\* Create; poll N+1 sends Create for it and leaves a node whose is_dir is the
\* disk's.
C6_Row(i, run, t, k, p) ==
    ( /\ k # <<>>
      /\ BetweenPolls(i)
      /\ is_dir(hist[i].seen, p) = t[k].is_dir
      /\ KindOf(hist[i].seen, p) \in {"file", "dir"}
      /\ KindOf(disk, p) \in {"file", "dir"}
      /\ is_dir(disk, p) # t[k].is_dir
      /\ Reached(t, run.root, k) )
    => /\ Sent(run.ev, WatchEvent(p, "Delete"))
       /\ ~Sent(run.ev, WatchEvent(p, "Create"))
       /\ i < Len(hist) =>
            /\ Sent(RunOf(i + 1, run.root).ev, WatchEvent(p, "Create"))
            /\ k \in DOMAIN Post(i + 1)[run.root]
            /\ Post(i + 1)[run.root][k].is_dir = is_dir(disk, p)
C6_TypeChange == EveryNode(C6_Row)

\* C7.  Non-regular entries: a node whose path has become, between two
\* polls, neither a regular file nor a directory gets Delete from the next
\* poll and is gone when it returns; no poll sends Create for such an entry;
\* and no node of the forest a poll leaves is for such an entry.
C7_Row(i, run, t, k, p) ==
    ( /\ BetweenPolls(i)
      /\ KindOf(hist[i].seen, p) \in {"file", "dir"}
      /\ KindOf(disk, p) = "fifo"
      /\ Reached(t, run.root, k) ) =>
        /\ Sent(run.ev, WatchEvent(p, "Delete"))
        /\ k \notin DOMAIN Post(i)[run.root]
C7_NonRegular ==
    /\ EveryNode(C7_Row)
    /\ \A i \in DOMAIN hist :
          /\ \A j \in DOMAIN Flat(hist[i].runs) :
                LET e == Flat(hist[i].runs)[j]
                IN  e.kind = "Create" => KindOf(disk, e.path) # "fifo"
          /\ \A r \in DOMAIN Post(i) : \A p \in TreePaths(r, Post(i)[r]) : KindOf(disk, p) # "fifo"

\* C8.  Non-recursive roots stay shallow: the tree of a root registered with
\* recursive = false holds the root and immediate children of the root only,
\* and its walks send no event for a path deeper than that.
Shallow(root, p) == p = root \/ (p # <<>> /\ Parent(p) = root)
C8_NonRecursiveShallow ==
    \A r \in DOMAIN regs :
        ~regs[r] =>
            /\ r \in DOMAIN forest => \A p \in TreePaths(r, forest[r]) : Shallow(r, p)
            /\ \A i \in DOMAIN hist : \A n \in DOMAIN hist[i].runs :
                  hist[i].runs[n].root = r =>
                      \A j \in DOMAIN hist[i].runs[n].ev : Shallow(r, hist[i].runs[n].ev[j].path)

\* C9.  Tree-path consistency: every node a call of add_path installed is
\* handed to the visitor by dfs_mut under the path that call was given.
C9_TreePathConsistency ==
    \A rk \in DOMAIN given : PathOf(rk[1], rk[2]) = given[rk]

\* C10.  Forest coverage: after add_dir_recursively(D) on a disk every
\* directory of which can be listed, the paths dfs_mut reports for the tree
\* of D are D and the regular files and directories below D, and nothing else.
FullyReadable(d) == \A p \in Paths : d[p].readable
RegularBelow(d, root) ==
    {p \in Paths \cup {<<>>} :
        /\ StartsWith(p, root)
        /\ \A n \in Len(root)..Len(p) :
              KindOf(d, SubSeq(p, 1, n)) = IF n = Len(p) /\ n # Len(root) THEN KindOf(d, p) ELSE "dir"
        /\ KindOf(d, p) \in {"file", "dir"}}
C10_ForestCoverage ==
    (last.op = "add_dir_recursively" /\ FullyReadable(disk)) =>
        TreePaths(last.root, forest[last.root]) = RegularBelow(disk, last.root)

\* C11.  Event-id monotonicity: every event a poll sends carries an id, and
\* of two events sent one after the other the later has the larger id (so
\* ids of distinct events are distinct).
C11_EventIds ==
    \A i \in DOMAIN hist :
        LET ev == Flat(hist[i].runs)
        IN  \A j \in DOMAIN ev :
                /\ "id" \in DOMAIN ev[j]
                /\ \A j2 \in DOMAIN ev : j < j2 => ev[j].id < ev[j2].id

\* C20.  Every prune is announced: for a node a poll started with and left
\* the forest without, the walk of its tree has sent Delete for the node's
\* path or for the path of a node above it.
C20_Row(i, run, t, k, p) ==
    k \notin DOMAIN Post(i)[run.root] =>
        \E n \in 0..Len(k) :
            Sent(run.ev, WatchEvent(PathOf(run.root, SubSeq(k, 1, n)), "Delete"))
C20_PruneAnnounced == EveryNode(C20_Row)


\* ------------------------------------------------------ the id generator
\* AtomicU32::fetch_add(1, SeqCst) on a counter that reads cur: the value
\* returned and the value stored.  The counter wraps at 2^32, which the
\* MaxCalls calls made here stay far below.
fetch_add_new(cur) == [ret |-> cur + 1, new |-> cur + 1]
fetch_add(cur) == [ret |-> cur, new |-> cur + 1]

\* The largest value a call of next_id has returned so far, 0 for none.
Floor == IF rets = <<>> THEN 0
         ELSE CHOOSE m \in {rets[i].val : i \in DOMAIN rets} :
                  \A i \in DOMAIN rets : rets[i].val <= m

\* The calls started so far.
Started == Len(rets) + Cardinality({t \in Threads : thr[t].pc # "idle"})

\* Thread t calls next_id.
call_next_id(t) ==
    /\ thr[t].pc = "idle"
    /\ Started < MaxCalls
    /\ thr' = [thr EXCEPT ![t] = [pc |-> "called", val |-> 0, floor |-> Floor]]
    /\ UNCHANGED <<curr_id, incs, rets, wvars, pollvars, procvars, readervars>>

\* The atomic increment of the call of thread t.
next_id_fetch_add(t) ==
    /\ thr[t].pc = "called"
    /\ LET r == fetch_add(curr_id)
       IN  /\ curr_id' = r.new
           /\ thr' = [thr EXCEPT ![t].pc = "fetched", ![t].val = r.ret]
           /\ incs' = Append(incs, r.ret)
    /\ UNCHANGED <<rets, wvars, pollvars, procvars, readervars>>

\* The call of thread t returns what its increment read.
next_id_return(t) ==
    /\ thr[t].pc = "fetched"
    /\ rets' = Append(rets, [val |-> thr[t].val, floor |-> thr[t].floor])
    /\ thr' = [thr EXCEPT ![t].pc = "idle"]
    /\ UNCHANGED <<curr_id, incs, wvars, pollvars, procvars, readervars>>

NextIds ==
    \/ \E t \in Threads : call_next_id(t)
    \/ \E t \in Threads : next_id_fetch_add(t)
    \/ \E t \in Threads : next_id_return(t)

\* A new generator shared by the threads; the watcher is not running.
SpecIds == Init /\ [][NextIds]_vars

\* C12.  Id generator under concurrency: the k-th atomic increment returns k
\* (the first call on a new generator returns 1), no two calls return the
\* same value, and a call that started after another had returned gets a
\* value strictly larger than that one's.
C12_IdGenerator ==
    /\ \A k \in DOMAIN incs : incs[k] = k
    /\ \A i, j \in DOMAIN rets : i # j => rets[i].val # rets[j].val
    /\ \A t, u \in Threads :
           t # u /\ thr[t].pc = "fetched" /\ thr[u].pc = "fetched" => thr[t].val # thr[u].val
    /\ \A t \in Threads, i \in DOMAIN rets :
           thr[t].pc = "fetched" => thr[t].val # rets[i].val
    /\ \A i \in DOMAIN rets : rets[i].val > rets[i].floor
    /\ \A t \in Threads : thr[t].pc = "fetched" => thr[t].val > thr[t].floor

\* Two calls are between their increment and their return while a third,
\* started after a call had returned, has returned too.
C12_Witness ==
    /\ \E t, u \in Threads : t # u /\ thr[t].pc = "fetched" /\ thr[u].pc = "fetched"
    /\ \E i \in DOMAIN rets : rets[i].floor > 0


\* --------------------------------------------------- a poll step by step
\* poll_tree has returned once the walk has sent its events: Sender::send
\* is called from within the visitor.
poll_tree_returned_early(w) == TRUE
poll_tree_returned(w) == w.left = <<>>

\* ThreadPool::install returns when the closure it was given has.
install_returned(r) == \A w \in walking : w.root = r => w.done

\* WaitGroup::wait drops the original and returns when no clone is left.
wait_returned == wg = 0

\* The walks in progress.
InProgress(wk) == {w \in wk : ~w.done}

\* start_polling enters poll: a new WaitGroup, and the iterator over the
\* trees of the forest.
poll_begin(roots) ==
    /\ ppc = "idle"
    /\ DOMAIN regs # {}
    /\ cycle < MaxCycles
    /\ cycle' = cycle + 1
    /\ todo' = roots
    /\ wg' = 1
    /\ due' = <<>>
    /\ ppc' = "loop"
    /\ phase' = "polling"
    /\ UNCHANGED <<disk, now, forest, hist, seen, regs, quiet, last, nops, given>>
    /\ UNCHANGED <<walking, chan, peak, idvars, procvars, readervars>>

\* The body of the for: the WaitGroup is cloned and poll_tree is handed to
\* the pool for the next tree; o is the order its walk takes children in.
poll_install(o) ==
    /\ ppc = "loop"
    /\ todo # <<>>
    /\ LET root == Head(todo)
           r == PathTree_dfs_mut("poll", o, disk, forest[root], root)
           tagged == [j \in DOMAIN r.ev |-> [cycle |-> cycle, ev |-> r.ev[j]]]
       IN  /\ walking' = walking \cup {[root |-> root, left |-> tagged, t |-> r.t, done |-> FALSE]}
           /\ due' = due \o tagged
    /\ peak' = IF Cardinality(InProgress(walking')) > peak
               THEN Cardinality(InProgress(walking')) ELSE peak
    /\ wg' = wg + 1
    /\ todo' = Tail(todo)
    /\ ppc' = "installed"
    /\ UNCHANGED <<wvars, cycle, chan, idvars, procvars, readervars>>

\* The visitor of the walk w sends its next event.
walk_send(w) ==
    /\ w \in walking
    /\ w.left # <<>>
    /\ chan' = Append(chan, Head(w.left))
    /\ walking' = (walking \ {w}) \cup
                      IF w.done /\ Len(w.left) = 1 THEN {} ELSE {[w EXCEPT !.left = Tail(@)]}
    /\ UNCHANGED <<wvars, ppc, cycle, todo, wg, due, peak, idvars, procvars, readervars>>

\* poll_tree returns on the worker, the closure drops its clone of the
\* WaitGroup and returns.
walk_return(w) ==
    /\ w \in walking
    /\ ~w.done
    /\ poll_tree_returned(w)
    /\ forest' = [forest EXCEPT ![w.root] = w.t]
    /\ walking' = (walking \ {w}) \cup
                      IF w.left = <<>> THEN {} ELSE {[w EXCEPT !.done = TRUE]}
    /\ wg' = wg - 1
    /\ UNCHANGED <<disk, now, phase, hist, seen, regs, quiet, last, nops, given>>
    /\ UNCHANGED <<ppc, cycle, todo, chan, due, peak, idvars, procvars, readervars>>

\* install returns Ok to the for, which goes on to the next tree.
install_return ==
    /\ ppc = "installed"
    /\ \A r \in DOMAIN forest : r \notin {todo[j] : j \in DOMAIN todo} => install_returned(r)
    /\ ppc' = "loop"
    /\ UNCHANGED <<wvars, cycle, todo, walking, wg, chan, due, peak, idvars, procvars, readervars>>

\* The for is over: wg.wait().
poll_wait ==
    /\ ppc = "loop"
    /\ todo = <<>>
    /\ wg' = wg - 1
    /\ ppc' = "wait"
    /\ UNCHANGED <<wvars, cycle, todo, walking, chan, due, peak, idvars, procvars, readervars>>

\* wait returns and poll returns Ok(()).
poll_return ==
    /\ ppc = "wait"
    /\ wait_returned
    /\ ppc' = "returned"
    /\ UNCHANGED <<wvars, cycle, todo, walking, wg, chan, due, peak, idvars, procvars, readervars>>

\* thread::sleep(POLL_INTERVAL_SECS), and round the loop of start_polling.
sleep ==
    /\ ppc = "returned"
    /\ ppc' = "idle"
    /\ UNCHANGED <<wvars, cycle, todo, walking, wg, chan, due, peak, idvars, procvars, readervars>>

NextPoll ==
    \/ \E p \in Roots : add_directory(p, TRUE, AnyOrder)
    \/ \E p \in Paths : Write(p)
    \/ Tick
    \/ \E roots \in TreeOrders(forest) : poll_begin(roots)
    \/ \E o \in Orders : poll_install(o)
    \/ \E w \in walking : walk_send(w)
    \/ \E w \in walking : walk_return(w)
    \/ install_return
    \/ poll_wait
    \/ poll_return
    \/ sleep

SpecPoll == Init /\ [][NextPoll]_vars

\* The events on the channel that cycle c sent.
OfCycle(c) == SelectSeq(chan, LAMBDA e : e.cycle = c)

\* C13.  Poll barrier: when poll has returned Ok no walk is in progress,
\* every event the walks of this cycle had to send is on the channel, and
\* on the channel no event of a later cycle precedes one of an earlier
\* cycle.
C13_PollBarrier ==
    /\ ppc = "returned" => walking = {} /\ OfCycle(cycle) = due
    /\ \A i, j \in DOMAIN chan : i < j => chan[i].cycle <= chan[j].cycle

\* The second poll has returned and the channel holds events of both cycles.
C13_Witness ==
    /\ ppc = "returned"
    /\ cycle = 2
    /\ Cardinality(DOMAIN forest) = 2
    /\ OfCycle(1) # <<>>
    /\ OfCycle(2) # <<>>

\* C14.  Parallel tree polling: a poll of a forest of two or more trees has,
\* by the time it returns, had the walks of two trees in progress at once.
C14_ParallelWalks ==
    ppc = "returned" /\ Cardinality(DOMAIN forest) >= 2 => peak >= 2


\* ------------------------------------------------- ReadCommand::process
\* What open, stat and read may answer besides Ok; EIO stands for the
\* errors the code does not name.
Errnos == {"ENOENT", "EACCES", "EISDIR", "EIO"}

BUF_SIZE == 1024

\* File sizes: empty, short of one buffer, one buffer, more than one.
Sizes == {0, 5, BUF_SIZE, BUF_SIZE + 6}

\* st_mode: 0o100644, 0o104755, 0o101000, 0o40700.
Modes == {33188, 35309, 33280, 16832}

\* What the system calls answer for the path of a command: open and stat
\* their result, the read number `at` the result `read` if that is not Ok;
\* size and mode are what stat reports when it succeeds.
SysAnswers ==
    [open : {"Ok"} \cup Errnos, stat : {"Ok"} \cup Errnos, read : {"Ok"} \cup Errnos,
     at : {1, 2}, size : Sizes, mode : Modes]

ReadCommandKind == {"Data", "Permission"}

Ok(v) == [tag |-> "Ok", val |-> v]
Err(e) == [tag |-> "Err", err |-> e]
None == [some |-> FALSE]
Some(v) == [some |-> TRUE, v |-> v]

\* stat_deletable_file.
stat_deletable_file(s) ==
    IF s.stat = "Ok" THEN Ok(Some([st_size |-> s.size, st_mode |-> s.mode]))
    ELSE IF s.stat = "ENOENT" \/ s.stat = "EACCES" THEN Ok(None)
    ELSE Err(s.stat)

\* The loop of read_deletable_file, about to make read number k with `data`
\* bytes, the first of the file, collected.
RECURSIVE read_loop(_, _, _)
read_loop(s, k, data) ==
    IF s.read # "Ok" /\ k = s.at
    THEN IF s.read = "ENOENT" \/ s.read = "EACCES" \/ s.read = "EISDIR"
         THEN Ok(None) ELSE Err(s.read)
    ELSE LET left == s.size - data
             bytes_read == IF left < BUF_SIZE THEN left ELSE BUF_SIZE
         IN  IF bytes_read < BUF_SIZE THEN Ok(Some(data + bytes_read))
             ELSE read_loop(s, k + 1, data + bytes_read)

\* read_deletable_file; the data is the count of leading bytes of the file.
read_deletable_file(s) ==
    IF s.open # "Ok"
    THEN IF s.open = "ENOENT" \/ s.open = "EACCES" \/ s.open = "EISDIR"
         THEN Ok(None) ELSE Err(s.open)
    ELSE LET st == stat_deletable_file(s)
         IN  IF st.tag = "Err" THEN st
             ELSE IF ~st.val.some THEN Ok(None)
             ELSE read_loop(s, 1, 0)

\* From<u8> for NormalPermission and for SpecialPermission.
NormalPermission_from(perm) ==
    [read |-> (perm \div 4) % 2 # 0, write |-> (perm \div 2) % 2 # 0, execute |-> perm % 2 # 0]
SpecialPermission_from(perm) ==
    [suid |-> (perm \div 4) % 2 # 0, sgid |-> (perm \div 2) % 2 # 0, sticky |-> perm % 2 # 0]

\* The assertions of the three From impls: the top 5 bits of the byte, the
\* top 4 bits of the word, are 0.
NormalPermission_asserts(perm) == perm \div 8 = 0
FilePermission_asserts(perm) ==
    /\ perm \div 4096 = 0
    /\ \A shift \in {1, 8, 64, 512} : NormalPermission_asserts((perm \div shift) % 8)

\* A From<u16> for FilePermission that takes the user bits for the other
\* bits and the other bits for the user bits.
FilePermission_from_swapped(perm) ==
    [user |-> [read |-> (perm \div 4) % 2 # 0, write |-> (perm \div 2) % 2 # 0,
               execute |-> perm % 2 # 0],
     group |-> [read |-> (perm \div 32) % 2 # 0, write |-> (perm \div 16) % 2 # 0,
                execute |-> (perm \div 8) % 2 # 0],
     other |-> [read |-> (perm \div 256) % 2 # 0, write |-> (perm \div 128) % 2 # 0,
                execute |-> (perm \div 64) % 2 # 0],
     spec |-> [suid |-> (perm \div 2048) % 2 # 0, sgid |-> (perm \div 1024) % 2 # 0,
               sticky |-> (perm \div 512) % 2 # 0]]

\* From<u16> for FilePermission.
FilePermission_from(perm) ==
    [user |-> NormalPermission_from((perm \div 64) % 8),
     group |-> NormalPermission_from((perm \div 8) % 8),
     other |-> NormalPermission_from(perm % 8),
     spec |-> SpecialPermission_from((perm \div 512) % 8)]

\* ReadCommand::process for a command of the given kind and event_id.
process(kind, event_id, s) ==
    IF kind = "Data"
    THEN LET r == read_deletable_file(s)
         IN  IF r.tag = "Err" THEN r
             ELSE Ok([content |-> IF r.val.some THEN [is |-> "Data", data |-> r.val.v]
                                  ELSE [is |-> "Delete"],
                      event_id |-> event_id])
    ELSE LET r == stat_deletable_file(s)
             perm_bits == r.val.v.st_mode % 4096
         IN  IF r.tag = "Err" THEN r
             ELSE IF r.val.some /\ ~FilePermission_asserts(perm_bits) THEN [tag |-> "panic"]
             ELSE Ok([content |-> IF r.val.some
                                  THEN [is |-> "Permission",
                                        perm |-> FilePermission_from(perm_bits)]
                                  ELSE [is |-> "Delete"],
                      event_id |-> event_id])

\* The descriptors read_deletable_file leaves open when it returns: the one
\* fcntl::open gave it, unless the loop came to its end and unistd::close
\* was called.  fd is a RawFd: dropping it closes nothing.
read_deletable_file_fds(s) ==
    IF s.open # "Ok" THEN 0
    ELSE LET st == stat_deletable_file(s)
         IN  IF st.tag = "Err" THEN 1
             ELSE IF ~st.val.some THEN 1
             ELSE IF read_loop(s, 1, 0).tag = "Ok" /\ read_loop(s, 1, 0).val.some THEN 0
             ELSE 1

\* The descriptors ReadCommand::process leaves open: Permission opens none.
process_fds(kind, s) == IF kind = "Data" THEN read_deletable_file_fds(s) ELSE 0

\* A command is processed.
call_process ==
    /\ call.kind \in ReadCommandKind
    /\ out.tag = "none"
    /\ out' = process(call.kind, call.event_id, call.s)
    /\ fds' = fds + process_fds(call.kind, call.s)
    /\ UNCHANGED <<call, wvars, idvars, pollvars, readervars>>

NextProcess == call_process

\* One command, of either kind, with every answer of the system calls.
InitProcess ==
    /\ InitWatcher
    /\ InitIds
    /\ InitPoll
    /\ InitReader
    /\ sys = [p \in RPaths |-> Healthy]
    /\ call \in [kind : ReadCommandKind, event_id : {1}, s : SysAnswers]
    /\ out = [tag |-> "none"]
    /\ fds = 0

SpecProcess == InitProcess /\ [][NextProcess]_vars

\* The first error the system calls of a command of the given kind answer,
\* in the order the calls are made; "Ok" for none.  The second read is made
\* when the first filled the buffer.
FirstError(kind, s) ==
    IF kind = "Permission" THEN s.stat
    ELSE IF s.open # "Ok" THEN s.open
    ELSE IF s.stat # "Ok" THEN s.stat
    ELSE IF s.read # "Ok" /\ (s.at = 1 \/ s.size >= BUF_SIZE) THEN s.read
    ELSE "Ok"

\* Bit b of the mode m.
Bit(m, b) == (m \div (2 ^ b)) % 2 = 1

\* C16.  Deletable-read classification: a Data command whose open, stat or
\* read fails with ENOENT, EACCES or EISDIR, and a Permission command whose
\* stat fails with ENOENT or EACCES, yields content Delete; any other error
\* is returned by process; without an error Data yields the bytes of the
\* file and Permission the lower 12 bits of the mode, decomposed.
C16_Classification ==
    out.tag # "none" =>
        LET e == FirstError(call.kind, call.s)
            deletable == IF call.kind = "Data" THEN {"ENOENT", "EACCES", "EISDIR"}
                         ELSE {"ENOENT", "EACCES"}
            m == call.s.mode
        IN  IF e = "Ok"
            THEN /\ out.tag = "Ok"
                 /\ call.kind = "Data" =>
                        out.val.content = [is |-> "Data", data |-> call.s.size]
                 /\ call.kind = "Permission" =>
                        /\ out.val.content.is = "Permission"
                        /\ out.val.content.perm =
                              [user |-> [read |-> Bit(m, 8), write |-> Bit(m, 7), execute |-> Bit(m, 6)],
                               group |-> [read |-> Bit(m, 5), write |-> Bit(m, 4), execute |-> Bit(m, 3)],
                               other |-> [read |-> Bit(m, 2), write |-> Bit(m, 1), execute |-> Bit(m, 0)],
                               spec |-> [suid |-> Bit(m, 11), sgid |-> Bit(m, 10), sticky |-> Bit(m, 9)]]
            ELSE IF e \in deletable
            THEN out.tag = "Ok" /\ out.val.content = [is |-> "Delete"]
            ELSE out.tag = "Err" /\ out.err = e


\* ------------------------------------------------------- the FileReader
MAX_NUM_THREADS == 4

\* num_cpus::get() on the machine the reader runs on.
NumCpus == 2

\* ThreadPool::current_num_threads for the pool of FileReader::new.
current_num_threads == IF NumCpus > MAX_NUM_THREADS THEN NumCpus ELSE MAX_NUM_THREADS

\* A path that is gone, and one whose every call fails with EIO.
Gone == [Healthy EXCEPT !.open = "ENOENT", !.stat = "ENOENT"]
Broken == [Healthy EXCEPT !.open = "EIO", !.stat = "EIO"]

\* The loops that may come to exist.
Loops == 1..current_num_threads

\* The owner of the Sender sends a command; its event_id is the number of
\* the send.
send_command(path, kind) ==
    /\ sender
    /\ Len(placed) < MaxCmds
    /\ LET comm == [path |-> path, kind |-> kind, event_id |-> Len(placed) + 1]
       IN  /\ cmds' = Append(cmds, comm)
           /\ placed' = Append(placed, [comm |-> comm, running |-> rpc = "running"])
    /\ UNCHANGED <<sys, sender, results, rpc, loops, wvars, idvars, pollvars, procvars>>

\* The Sender of the command channel is dropped.
drop_sender ==
    /\ sender
    /\ sender' = FALSE
    /\ UNCHANGED <<sys, cmds, results, rpc, loops, placed, wvars, idvars, pollvars, procvars>>

\* start_reader is called.
start_reader ==
    /\ rpc = "new"
    /\ rpc' = "running"
    /\ UNCHANGED <<sys, cmds, sender, results, loops, placed, wvars, idvars, pollvars, procvars>>

\* The body of the for: the next closure is handed to the pool.  install
\* has returned Ok for every closure before it, that is, each of them has
\* returned Ok.
install ==
    /\ rpc = "running"
    /\ Len(loops) < current_num_threads
    /\ \A l \in DOMAIN loops : loops[l].pc = "returned"
    /\ loops' = Append(loops, [pc |-> "recv"])
    /\ UNCHANGED <<sys, cmds, sender, results, rpc, placed, wvars, idvars, pollvars, procvars>>

\* command_recv.recv() yields the oldest command.
loop_recv(l) ==
    /\ l \in DOMAIN loops
    /\ loops[l].pc = "recv"
    /\ cmds # <<>>
    /\ loops' = [loops EXCEPT ![l] = [pc |-> "process", comm |-> Head(cmds)]]
    /\ cmds' = Tail(cmds)
    /\ UNCHANGED <<sys, sender, results, rpc, placed, wvars, idvars, pollvars, procvars>>

\* recv() on the empty channel whose Sender is gone answers Err, unwrap
\* panics, and the pool hands the panic on to the caller of install.
loop_recv_closed(l) ==
    /\ l \in DOMAIN loops
    /\ loops[l].pc = "recv"
    /\ cmds = <<>>
    /\ ~sender
    /\ loops' = [loops EXCEPT ![l] = [pc |-> "panicked"]]
    /\ rpc' = "panicked"
    /\ UNCHANGED <<sys, cmds, sender, results, placed, wvars, idvars, pollvars, procvars>>

\* comm.process()?: an Err ends the closure, install and start_reader.
loop_process(l) ==
    /\ l \in DOMAIN loops
    /\ loops[l].pc = "process"
    /\ LET comm == loops[l].comm
           r == process(comm.kind, comm.event_id, sys[comm.path])
       IN  IF r.tag = "Ok"
           THEN /\ loops' = [loops EXCEPT ![l] = [pc |-> "send", comm |-> comm, data |-> r.val]]
                /\ rpc' = rpc
           ELSE /\ loops' = [loops EXCEPT ![l] = [pc |-> "failed", comm |-> comm]]
                /\ rpc' = "Err"
    /\ UNCHANGED <<sys, cmds, sender, results, placed, wvars, idvars, pollvars, procvars>>

\* data_send.send(data), and round the loop.
loop_send(l) ==
    /\ l \in DOMAIN loops
    /\ loops[l].pc = "send"
    /\ results' = Append(results, loops[l].data)
    /\ loops' = [loops EXCEPT ![l] = [pc |-> "recv"]]
    /\ UNCHANGED <<sys, cmds, sender, rpc, placed, wvars, idvars, pollvars, procvars>>

NextReader ==
    \/ \E path \in RPaths, kind \in ReadCommandKind : send_command(path, kind)
    \/ drop_sender
    \/ start_reader
    \/ install
    \/ \E l \in Loops : loop_recv(l)
    \/ \E l \in Loops : loop_recv_closed(l)
    \/ \E l \in Loops : loop_process(l)
    \/ \E l \in Loops : loop_send(l)

\* A reader over two paths, each healthy, gone or broken.
InitReaderSpec ==
    /\ InitWatcher
    /\ InitIds
    /\ InitPoll
    /\ InitNoCall
    /\ InitReader
    /\ sys \in [RPaths -> {Healthy, Gone, Broken}]

SpecReader == InitReaderSpec /\ [][NextReader]_vars

\* The threads of the reader and of the pool get to run.
FairReader ==
    /\ WF_vars(install)
    /\ \A l \in Loops :
           /\ WF_vars(loop_recv(l))
           /\ WF_vars(loop_recv_closed(l))
           /\ WF_vars(loop_process(l))
           /\ WF_vars(loop_send(l))

SpecReaderFair == InitReaderSpec /\ [][NextReader]_vars /\ FairReader

\* process fails fatally for the command.
Fatal(comm) == process(comm.kind, comm.event_id, sys[comm.path]).tag = "Err"

\* start_reader has ended: nothing more is received or sent.
ReaderOver == rpc \in {"Ok", "Err", "panicked"}

\* C15.  Reader correlation and response: once the reader is over, every
\* command that was sent while it was running and that process does not
\* fail on has exactly one result on the result channel, with the command's
\* event_id; and at all times every result carries the event_id of a
\* command that was received.
C15_Correlation ==
    /\ ReaderOver =>
           \A i \in DOMAIN placed :
               placed[i].running /\ ~Fatal(placed[i].comm) =>
                   Cardinality({j \in DOMAIN results :
                                   results[j].event_id = placed[i].comm.event_id}) = 1
    /\ \A j \in DOMAIN results :
           \E i \in DOMAIN placed :
               /\ placed[i].comm.event_id = results[j].event_id
               /\ \A k \in DOMAIN cmds : cmds[k] # placed[i].comm

\* C17.  One drain task per worker: once start_reader has been called, as
\* many drain loops as the pool has threads come to run, unless the reader
\* ends first.
C17_DrainTasks ==
    (rpc = "running") ~> (Len(loops) = current_num_threads \/ ReaderOver)

\* C18.  Reader shutdown: with the Sender dropped, every command processed
\* without a fatal error and the reader over, start_reader has returned Ok.
C18_Shutdown ==
    (/\ ~sender
     /\ cmds = <<>>
     /\ ReaderOver
     /\ \A l \in DOMAIN loops : loops[l].pc # "failed") => rpc = "Ok"


\* ------------------------------------------------- errors during a poll
\* What stat answers for path p: ENOTDIR when a component above p is not a
\* directory, ENOENT when nothing is there.  Path::exists, is_dir and
\* is_file answer false on either.
stat_errno(d, p) ==
    IF \E n \in 1..(Len(p) - 1) : KindOf(d, SubSeq(p, 1, n)) \in {"file", "fifo"} THEN "ENOTDIR"
    ELSE IF KindOf(d, p) = "none" THEN "ENOENT"
    ELSE "Ok"

\* The medium under directory p starts failing: read_dir answers EIO.
Break(p) ==
    /\ phase = "polling"
    /\ is_dir(disk, p)
    /\ ~disk[p].broken
    /\ DiskChanged([disk EXCEPT ![p].broken = TRUE])

NextErr ==
    \/ \E p \in Roots : add_directory(p, TRUE, AnyOrder)
    \/ \E p \in Paths, k \in {"file", "dir"} : Create(p, k)
    \/ \E p \in Paths : Remove(p)
    \/ \E p \in Paths : Break(p)
    \/ \E roots \in TreeOrders(forest), o \in Orders : poll(roots, o)

\* The watcher on a disk where directories are replaced and listings fail.
SpecErr == Init /\ [][NextErr]_vars

\* An inspection of the node at path p fails with an error that is neither
\* NotFound nor PermissionDenied: its stat, or the read_dir of a directory
\* node.
OtherFailure(node, p) ==
    \/ stat_errno(disk, p) = "ENOTDIR"
    \/ node.is_dir /\ is_dir(disk, p) /\ read_dir_result(disk, p) = "Other"

\* C19.  Watcher error propagation: a poll whose walk comes to a node with
\* an inspection failing other than by NotFound or PermissionDenied returns
\* the error, leaves the trees after the failing one as they were, and is
\* the last poll; and a poll returns an error only if some inspection on
\* the disk fails in that way.
C19_ErrorPropagation ==
    \A i \in DOMAIN hist :
        LET h == hist[i]
        IN  /\ (\E root \in DOMAIN h.pre : \E k \in DOMAIN h.pre[root] :
                    /\ Reached(h.pre[root], root, k)
                    /\ OtherFailure(h.pre[root][k], PathOf(root, k)))
                   => h.res = "Err"
            /\ h.res = "Err" =>
                   /\ i = Len(hist)
                   /\ phase = "stopped"
                   /\ \A j \in DOMAIN h.roots :
                          j > Len(h.runs) => forest[h.roots[j]] = h.pre[h.roots[j]]
                   /\ \E p \in Paths :
                          \/ stat_errno(disk, p) = "ENOTDIR"
                          \/ read_dir_result(disk, p) = "Other"


\* C21.  add_directory on a path that is not an existing directory returns
\* NotDirectory, leaves the forest as it was and sends no event.
C21_NotDirectory ==
    [][(last' # last /\ last'.op = "add_directory" /\ ~is_dir(disk, last'.path)) =>
           /\ last'.res = "NotDirectory"
           /\ forest' = forest
           /\ hist' = hist
           /\ chan' = chan]_vars

\* add_directory has answered NotDirectory with a tree already in the forest.
C21_Witness ==
    /\ last.op = "add_directory"
    /\ last.res = "NotDirectory"
    /\ ~is_dir(disk, last.path)
    /\ DOMAIN forest # {}


\* --------------------------------------------------- the permission codec
\* S_IFREG and S_IFDIR, the file type bits of st_mode.
FileTypes == {32768, 16384}

\* Every st_mode of a regular file or a directory.
StModes == {t + m : t \in FileTypes, m \in 0..4095}

\* One Permission command for a path that stat succeeds on, for every mode;
\* the watcher has nothing to watch.
InitCodec ==
    /\ InitWatcher
    /\ disk = MkDisk({W}, {})
    /\ InitIds
    /\ InitPoll
    /\ InitReader
    /\ sys = [p \in RPaths |-> Healthy]
    /\ call \in {[kind |-> "Permission", event_id |-> 1, s |-> [Healthy EXCEPT !.mode = m]] :
                    m \in StModes}
    /\ out = [tag |-> "none"]
    /\ fds = 0

SpecCodec == InitCodec /\ [][NextProcess]_vars

\* The mode the twelve flags of a FilePermission stand for.
Flag(b, v) == IF b THEN v ELSE 0
Recompose(perm) ==
    Flag(perm.spec.suid, 2048) + Flag(perm.spec.sgid, 1024) + Flag(perm.spec.sticky, 512)
    + Flag(perm.user.read, 256) + Flag(perm.user.write, 128) + Flag(perm.user.execute, 64)
    + Flag(perm.group.read, 32) + Flag(perm.group.write, 16) + Flag(perm.group.execute, 8)
    + Flag(perm.other.read, 4) + Flag(perm.other.write, 2) + Flag(perm.other.execute, 1)

\* C22.  Permission codec: for the lower 12 bits m of a mode, the record
\* process answers has suid, sgid, sticky from bits 11, 10, 9 of m and user,
\* group, other read/write/execute from bits 8..6, 5..3, 2..0; recomposing
\* the twelve flags yields m, so that no other 12-bit mode gives the same
\* record; and no assertion of the conversion fails.
C22_PermissionCodec ==
    (call.kind = "Permission" /\ call.s.stat = "Ok" /\ out.tag # "none") =>
        LET m == call.s.mode % 4096
        IN  /\ out.tag = "Ok"
            /\ out.val.content.is = "Permission"
            /\ out.val.content.perm =
                  [user |-> [read |-> Bit(m, 8), write |-> Bit(m, 7), execute |-> Bit(m, 6)],
                   group |-> [read |-> Bit(m, 5), write |-> Bit(m, 4), execute |-> Bit(m, 3)],
                   other |-> [read |-> Bit(m, 2), write |-> Bit(m, 1), execute |-> Bit(m, 0)],
                   spec |-> [suid |-> Bit(m, 11), sgid |-> Bit(m, 10), sticky |-> Bit(m, 9)]]
            /\ Recompose(out.val.content.perm) = m
            /\ \A m2 \in 0..4095 :
                   FilePermission_from(m2) = out.val.content.perm => m2 = m

\* The mode 0o4755 of a regular file has been decomposed: user rwx, group
\* r-x, other r-x, suid only.
C22_Witness ==
    /\ call.kind = "Permission"
    /\ call.s.mode = 32768 + 2541
    /\ out.tag = "Ok"
    /\ out.val.content.perm =
          [user |-> [read |-> TRUE, write |-> TRUE, execute |-> TRUE],
           group |-> [read |-> TRUE, write |-> FALSE, execute |-> TRUE],
           other |-> [read |-> TRUE, write |-> FALSE, execute |-> TRUE],
           spec |-> [suid |-> TRUE, sgid |-> FALSE, sticky |-> FALSE]]


\* -------------------------------------------------------- Config::from_reader
\* The entries of a configuration document.
MaxEntries == 2

\* A field the entry does not have.
Absent == [has |-> FALSE]
Present(v) == [has |-> TRUE, v |-> v]

\* Path texts, as the sequence of their characters: /h, f and g/h.
PathTexts == {<<"/", "h">>, <<"f">>, <<"g", "/", "h">>}

\* The JSON objects a document may hold: each of the two fields present or
\* not.
DocEntries ==
    [path : {Absent} \cup {Present(t) : t \in PathTexts},
     recursive : {Absent} \cup {Present(b) : b \in BOOLEAN}]

\* The documents: JSON arrays of up to MaxEntries objects.
Docs == UNION {[1..n -> DocEntries] : n \in 0..MaxEntries}

\* Path::is_absolute on Unix: the text starts with "/".
is_absolute(text) == text # <<>> /\ text[1] = "/"

\* serde_json::from_reader into Config: a missing field is an error.
serde_json_from_reader(doc) ==
    IF \E n \in DOMAIN doc : ~doc[n].path.has \/ ~doc[n].recursive.has
    THEN Err("DeserializeFailed")
    ELSE Ok([n \in DOMAIN doc |-> [path |-> doc[n].path.v, recursive |-> doc[n].recursive.v]])

\* A from_reader that reports the last path that is not absolute.
Config_from_reader_last(doc) ==
    LET r == serde_json_from_reader(doc)
    IN  IF r.tag = "Err" THEN r
        ELSE LET bad == {n \in DOMAIN r.val : ~is_absolute(r.val[n].path)}
             IN  IF bad # {}
                 THEN [tag |-> "Err", err |-> "PathNotAbs",
                       path |-> r.val[CHOOSE n \in bad : \A n2 \in bad : n2 <= n].path]
                 ELSE r

\* Config::from_reader: Iterator::find yields the first entry whose path is
\* not absolute.
Config_from_reader(doc) ==
    LET r == serde_json_from_reader(doc)
    IN  IF r.tag = "Err" THEN r
        ELSE LET bad == {n \in DOMAIN r.val : ~is_absolute(r.val[n].path)}
             IN  IF bad # {}
                 THEN [tag |-> "Err", err |-> "PathNotAbs",
                       path |-> r.val[CHOOSE n \in bad : \A n2 \in bad : n <= n2].path]
                 ELSE r

\* A document is read.
call_from_reader ==
    /\ call.kind = "from_reader"
    /\ out.tag = "none"
    /\ out' = Config_from_reader(call.doc)
    /\ UNCHANGED <<call, fds, wvars, idvars, pollvars, readervars>>

NextConfig == call_from_reader

\* One document out of Docs; the watcher has nothing to watch.
InitConfig ==
    /\ InitWatcher
    /\ disk = MkDisk({W}, {})
    /\ InitIds
    /\ InitPoll
    /\ InitReader
    /\ sys = [p \in RPaths |-> Healthy]
    /\ call \in {[kind |-> "from_reader", doc |-> doc] : doc \in Docs}
    /\ out = [tag |-> "none"]
    /\ fds = 0

SpecConfig == InitConfig /\ [][NextConfig]_vars

\* Every entry of the document has both fields.
Complete(doc) == \A n \in DOMAIN doc : doc[n].path.has /\ doc[n].recursive.has

\* The entries of the document whose path is there and not absolute.
NotAbs(doc) == {n \in DOMAIN doc : doc[n].path.has /\ ~is_absolute(doc[n].path.v)}
FirstNotAbs(doc) == doc[CHOOSE n \in NotAbs(doc) : \A n2 \in NotAbs(doc) : n <= n2].path.v

\* from_reader has returned Ok exactly for a complete document of absolute
\* paths, with the entries in document order.
OkExactly(doc) ==
    /\ out.tag = "Ok" <=> (Complete(doc) /\ NotAbs(doc) = {})
    /\ out.tag = "Ok" =>
           /\ DOMAIN out.val = DOMAIN doc
           /\ \A n \in DOMAIN doc :
                  out.val[n] = [path |-> doc[n].path.v, recursive |-> doc[n].recursive.v]

\* C23 as stated.  Configuration validation: from_reader succeeds exactly
\* for a complete document of absolute paths; a path that is not absolute
\* makes it fail with PathNotAbs naming the first such path; a missing field
\* makes it fail with a deserialisation error.
C23_AsStated ==
    (call.kind = "from_reader" /\ out.tag # "none") =>
        /\ OkExactly(call.doc)
        /\ NotAbs(call.doc) # {} =>
               out = [tag |-> "Err", err |-> "PathNotAbs", path |-> FirstNotAbs(call.doc)]
        /\ ~Complete(call.doc) => out = Err("DeserializeFailed")

\* C23.  Configuration validation: from_reader succeeds exactly for a
\* complete document of absolute paths; a missing field makes it fail with
\* a deserialisation error, whatever the paths are; in a complete document a
\* path that is not absolute makes it fail with PathNotAbs naming the first
\* such path.
C23_Validation ==
    (call.kind = "from_reader" /\ out.tag # "none") =>
        /\ OkExactly(call.doc)
        /\ (Complete(call.doc) /\ NotAbs(call.doc) # {}) =>
               out = [tag |-> "Err", err |-> "PathNotAbs", path |-> FirstNotAbs(call.doc)]
        /\ ~Complete(call.doc) => out = Err("DeserializeFailed")

\* A complete document with two different paths that are not absolute has
\* been refused, naming the first.
C23_Witness ==
    /\ call.kind = "from_reader"
    /\ Complete(call.doc)
    /\ Cardinality({call.doc[n].path.v : n \in NotAbs(call.doc)}) = 2
    /\ out.tag = "Err"
    /\ out.err = "PathNotAbs"
    /\ out.path = call.doc[1].path.v


\* ------------------------------------------------------------ convergence
\* The tree of root r in forest f holds the root and the regular files and
\* directories that are reachable from it on disk d, and the is_dir of every
\* node whose path the disk has is the disk's.
Converged(f, d, r) ==
    /\ TreePaths(r, f[r]) = {r} \cup RegularBelow(d, r)
    /\ \A k \in DOMAIN f[r] : exists(d, PathOf(r, k)) => f[r][k].is_dir = is_dir(d, PathOf(r, k))

\* C24.  Convergence to ground truth: on a disk every directory of which can
\* be listed, two polls after the last disk mutation the tree of every
\* recursively registered root holds the root and the regular files and
\* directories reachable from it, each node with the disk's is_dir; and a
\* poll that starts from such a tree leaves such a tree.  (A registered root
\* whose tree a later add_directory dropped has no tree to speak of.)
C24_Convergence ==
    FullyReadable(disk) =>
        \A r \in DOMAIN forest : (r \in DOMAIN regs /\ regs[r]) =>
            /\ Len(hist) >= 2 => Converged(forest, disk, r)
            /\ \A i \in DOMAIN hist : Converged(hist[i].pre, disk, r) => Converged(Post(i), disk, r)


C26_Row(i, run, t, k, p) ==
    ( /\ BetweenPolls(i)
      /\ t[k].is_dir
      /\ Below(t, k) # {}
      /\ exists(hist[i].seen, p)
      /\ ~exists(disk, p)
      /\ Reached(t, run.root, k) ) =>
        /\ About(run.ev, p) = <<WatchEvent(p, "Delete")>>
        /\ \A j \in i..Len(hist) : \A x \in Below(t, k) :
              ~Sent(Flat(hist[j].runs), WatchEvent(PathOf(run.root, x), "Delete"))
        /\ \A x \in Below(t, k) \cup {k} : x \notin DOMAIN Post(i)[run.root]
C26_DirectoryDelete == EveryNode(C26_Row)

\* -------------------------------------------------- fatal reader errors
\* C27.  Fatal reader errors are per command: when process has failed on a
\* command with an error that is neither deletion nor denial, a command that
\* waits in the command channel behind it, and on which process does not
\* fail, comes to have its result on the result channel.
C27_PerCommand ==
    \A e \in 1..MaxCmds :
        ( /\ \E l \in DOMAIN loops : loops[l].pc = "failed"
          /\ \E k \in DOMAIN cmds : cmds[k].event_id = e /\ ~Fatal(cmds[k]) )
        ~> (\E j \in DOMAIN results : results[j].event_id = e)

\* ------------------------------------------------------ dfs_mut on its own
\* The answers a visitor may give.
DfsFuncBehaviour == {"Continue", "Stop", "Delete", "AddAndContinue", "AddAndStop"}

\* The paths the visitor answers for one by one; below them it gives one
\* answer for all, which adds no paths.
Individual == {W, <<"w", "a">>, <<"w", "w">>}

\* The paths an adding answer carries for the node at path p: one child of
\* p, two children of p, or one path that is not below p.
NewPaths(adds, p) ==
    CASE adds = "one" -> <<Push(p, "a")>>
      [] adds = "two" -> <<Push(p, "a"), Push(p, "w")>>
      [] adds = "far" -> <<<<"w", "w", "a">>>>

\* What the visitor of call c answers for path p.
BehOf(c, p) == IF p \in Individual THEN c.script[p] ELSE c.deep

\* What the closure of call c has captured, with the disk dk.
Captured(dk, c) ==
    [p \in Paths |-> [kind |-> dk[p].kind, mtime |-> dk[p].mtime, ctime |-> dk[p].ctime,
                      readable |-> dk[p].readable, broken |-> dk[p].broken,
                      beh |-> BehOf(c, p), paths |-> NewPaths(c.adds, p)]]

\* A tree of directory nodes with the given keys.
MkTree(keys) == [k \in keys \cup {<<>>} |-> PathNode_new(Default, TRUE)]

\* The trees a pass starts from: the root W alone, or with children and
\* grandchildren.
DfsTrees ==
    { MkTree({}),
      MkTree({<<"a">>}),
      MkTree({<<"a">>, <<"w">>}),
      MkTree({<<"a">>, <<"a", "a">>}),
      MkTree({<<"a">>, <<"w">>, <<"a", "a">>}),
      MkTree({<<"a">>, <<"w">>, <<"a", "a">>, <<"w", "a">>, <<"w", "w">>}) }

\* PathTree::dfs_mut is called on the tree with the visitor.
call_dfs_mut(o) ==
    /\ call.kind = "dfs_mut"
    /\ out.tag = "none"
    /\ LET r == PathTree_dfs_mut("script", o, Captured(disk, call), call.t, W)
       IN  out' = [tag |-> "dfs", t |-> r.t, ev |-> r.ev, rb |-> r.rb]
    /\ UNCHANGED <<call, fds, wvars, idvars, pollvars, readervars>>

NextDfs == \E o \in Orders : call_dfs_mut(o)

\* One tree out of DfsTrees, one visitor.
InitDfs ==
    /\ InitWatcher
    /\ InitIds
    /\ InitPoll
    /\ InitReader
    /\ sys = [p \in RPaths |-> Healthy]
    /\ call \in {[kind |-> "dfs_mut", t |-> t, script |-> sc, deep |-> dp, adds |-> ad] :
                    t \in DfsTrees, sc \in [Individual -> DfsFuncBehaviour],
                    dp \in {"Continue", "Stop", "Delete"}, ad \in {"one", "two", "far"}}
    /\ out = [tag |-> "none"]
    /\ fds = 0

SpecDfs == InitDfs /\ [][NextDfs]_vars

\* The pass has called the visitor for path p.
Visited(p) == Sent(out.ev, WatchEvent(p, "Visit"))

\* The names of the children an adding answer for path p installs.
AddedNames(p) ==
    IF BehOf(call, p) \in {"AddAndContinue", "AddAndStop"}
    THEN {NewPaths(call.adds, p)[i][Len(NewPaths(call.adds, p)[i])] : i \in DOMAIN NewPaths(call.adds, p)}
    ELSE {}

\* The node the tree had at key k before the pass has been replaced, or has
\* gone with an ancestor that was replaced, by a child the visitor added
\* under the same name.
Replaced(k) ==
    \E n \in 1..Len(k) :
        /\ Visited(PathOf(W, SubSeq(k, 1, n - 1)))
        /\ k[n] \in AddedNames(PathOf(W, SubSeq(k, 1, n - 1)))

C29_AddedChildren ==
    out.tag = "dfs" =>
        \A j \in DOMAIN out.ev :
            LET p == out.ev[j].path
            IN  \A c \in AddedNames(p) :
                    /\ Append(Skip(p, Len(W)), c) \in DOMAIN out.t
                    /\ ~Visited(Push(p, c))

\* ------------------------------------------------------- add_path again
\* C30.  add_path is structurally idempotent: a call of add_path(root, path,
\* payload, is_dir) for a path whose node is there leaves every tree with
\* the keys it had, the nodes below that node included, and changes no node
\* but that one.
C30_Idempotent ==
    [][(last' # last /\ last'.op = "add_path"
            /\ HasNodeAt(forest, last'.root, last'.path)) =>
          /\ DOMAIN forest' = DOMAIN forest
          /\ \A r \in DOMAIN forest :
                /\ DOMAIN forest'[r] = DOMAIN forest[r]
                /\ \A k \in DOMAIN forest[r] :
                      (r # last'.root \/ k # strip_root(last'.root, last'.path))
                          => forest'[r][k] = forest[r][k]]_vars

\* ------------------------------------------------------- a further root
\* C31.  Registering a further root does not disturb earlier ones: a call of
\* add_directory that returns Ok leaves the tree of every root registered
\* before it in the forest, with the nodes and the timestamp payloads it had.
C31_EarlierRoots ==
    [][(last' # last /\ last'.op = "add_directory" /\ last'.res = "Ok") =>
          \A r \in DOMAIN regs :
              r \in DOMAIN forest => (r \in DOMAIN forest' /\ forest'[r] = forest[r])]_vars

\* ------------------------------------------------------- file descriptors
\* C32.  No descriptor leak in the reader: when a command has been processed,
\* whatever its system calls answered and however read_deletable_file
\* returned, no descriptor it opened is left open.
C32_NoDescriptorLeak == (call.kind \in ReadCommandKind /\ out.tag # "none") => fds = 0
====
